---- MODULE Spec2Model ----
(***************************************************************************)
(* Model of the video-material-generator pipeline:                         *)
(*   - the Job row and update_job / update_step (app/models/job.py,        *)
(*     app/workers/tasks.py),                                              *)
(*   - the process_video task, one action per committed database write     *)
(*     and per stage body (app/workers/tasks.py),                          *)
(*   - the pure algorithms the stages run: keyframe selection and          *)
(*     duplicate removal (app/core/video_processor.py), batch OCR          *)
(*     (app/core/ocr_processor.py), integration                            *)
(*     (app/core/integrator.py),                                           *)
(*   - the service around the task: the upload route and the folder        *)
(*     watcher creating and queueing jobs (app/api/routes.py,              *)
(*     app/workers/watcher.py), the worker that runs one task at a time    *)
(*     under its time limits (app/workers/celery_app.py), and the          *)
(*     class-level model caches (app/core/transcriber.py,                  *)
(*     app/core/ocr_processor.py).                                         *)
(* Times are whole seconds.  Texts are sequences of one-character strings. *)
(***************************************************************************)
EXTENDS Integers, Sequences, FiniteSets, TLC

VARIABLES
    job,            \* the Job row of the one job under observation
    pc,             \* position of the process_video task
    si,             \* index (1..7) of the stage the task is at
    exc,            \* the exception process_video re-raised to the dispatcher
    video_info,     \* local video_info (duration)
    unique_frames,  \* local unique_frames: the retained frames
    transcription,  \* local transcription: [segments, duration]
    ocr_results,    \* local ocr_results: BatchOCRResult
    unified,        \* local unified: [metadata, chapters]
    overall_summary,\* local overall_summary
    word_count,     \* local word_count
    progress_log,   \* history: every value written to job.progress, in order
    step_log,       \* history: every <<step, status>> written by update_step
    call,           \* last call of a pure function made on its own (IntegrateSpec)
    jobs,           \* the jobs table: the Job row of every job id
    tasks,          \* per job id: where its process_video task is, and its history
    broker,         \* the task messages waiting in the queue, oldest first
    worker          \* the pool process of the worker: its class-level caches

vars == <<job, pc, si, exc, video_info, unique_frames, transcription,
          ocr_results, unified, overall_summary, word_count, progress_log,
          step_log, call, jobs, tasks, broker, worker>>

----------------------------------------------------------------------------
(* Bounds of the model *)

MaxTick == 2        \* speech times are 0, 10, .., 10 * MaxTick
MaxFrameTick == 1   \* scene-change times are 0, 15, .., 15 * MaxFrameTick
MaxDurTick == 2     \* durations are 0, 40, .., 40 * MaxDurTick
MaxSegs == 2        \* segments per transcription
MaxFrames == 3      \* OCR results per direct call of integrate
MaxHashK == 2       \* perceptual hashes are 2^(3k) - 1, k in 0..MaxHashK
MaxDedupFrames == 4 \* frames per direct call of remove_duplicate_frames
MaxJobs == 2        \* jobs uploaded to the service
MaxKills == 1       \* forced terminations of the worker's pool process
MaxDeliveries == 2  \* deliveries of one job's task message (RedeliverySpec)

SegTimes == {10 * k : k \in 0..MaxTick}
FrameTimes == {15 * k : k \in 0..MaxFrameTick}
Durations == {40 * k : k \in 0..MaxDurTick}
HashPool == {2^(3 * k) - 1 : k \in 0..MaxHashK}

\* segment texts as the recognizer returns them (leading blank, inner blank)
SegTexts == {<<" ", "a">>, <<"b", " ", "c", " ">>}
\* recognized on-screen text of a frame
OcrTexts == {<<>>, <<"X">>}

----------------------------------------------------------------------------
(* app/models/job.py *)

None == "None"
NoneNum == -1

QUEUED == "queued"
PROCESSING == "processing"
COMPLETED == "completed"
FAILED == "failed"
PENDING == "pending"

JobStatus == {QUEUED, PROCESSING, COMPLETED, FAILED}
StepStatus == {PENDING, PROCESSING, COMPLETED, FAILED}

\* variant: the OCR block placed before the transcription block
StepsOcrFirst == <<"extract_audio", "extract_frames", "ocr", "transcribe",
                   "integrate", "summarize", "generate_html">>

\* the seven stages in the order process_video runs them
Steps == <<"extract_audio", "extract_frames", "transcribe", "ocr",
           "integrate", "summarize", "generate_html">>

StepField(step) == "step_" \o step

\* Job(id=job_id, filename=filename) with the column defaults
NewJob ==
    [ status |-> QUEUED,
      progress |-> 0,
      current_step |-> None,
      step_extract_audio |-> PENDING,
      step_extract_frames |-> PENDING,
      step_transcribe |-> PENDING,
      step_ocr |-> PENDING,
      step_integrate |-> PENDING,
      step_summarize |-> PENDING,
      step_generate_html |-> PENDING,
      duration |-> NoneNum,
      total_frames |-> NoneNum,
      word_count |-> NoneNum,
      error_message |-> None,
      started_at |-> None,
      completed_at |-> None,
      celery_task_id |-> None ]

\* update_job(job_id, **kwargs): every keyword that names a column is set
update_job(j, kwargs) ==
    [k \in DOMAIN j |-> IF k \in DOMAIN kwargs THEN kwargs[k] ELSE j[k]]

----------------------------------------------------------------------------
(* app/workers/tasks.py: update_step *)

\* variant: current_step names the stage whatever the status written
update_step_kwargs_naming(step, status, progress) ==
    (StepField(step) :> status)
    @@ [ current_step |-> step, progress |-> progress ]

\* the keyword arguments update_step passes to update_job
update_step_kwargs(step, status, progress) ==
    (StepField(step) :> status)
    @@ [ current_step |-> IF status = PROCESSING THEN step ELSE None,
         progress |-> progress ]

update_step(j, step, status, progress) ==
    update_job(j, update_step_kwargs(step, status, progress))

\* variant: the checkpoints of transcribe and ocr exchanged
ProgressCompletedSwapped == <<10, 25, 70, 50, 80, 90, 100>>

\* progress written when stage i is set PROCESSING / COMPLETED
ProgressProcessing == <<5, 15, 30, 55, 75, 82, 92>>
ProgressCompleted == <<10, 25, 50, 70, 80, 90, 100>>

----------------------------------------------------------------------------
(* app/core/video_processor.py *)

\* hash of a frame file that cannot be opened or hashed
Unreadable == -1

\* a frame file on disk: the perceptual hash of its picture (Unreadable when
\* Image.open or phash raises) and whether unlink of the file raises
File(hash, stuck) == [hash |-> hash, stuck |-> stuck]

IntervalSeconds == 30
phash_threshold == 5

\* number of differing bits of two perceptual hashes (imagehash a - b)
RECURSIVE HammingDistance(_, _)
HammingDistance(a, b) ==
    IF a = 0 /\ b = 0 THEN 0
    ELSE (IF a % 2 # b % 2 THEN 1 ELSE 0) + HammingDistance(a \div 2, b \div 2)

\* _extract_frames_at_timestamps: one frame per timestamp whose ffmpeg call
\* succeeds (i \notin fails), named by timestamp and index; imgs[i] is the
\* picture ffmpeg wrote
RECURSIVE FramesAtLoop(_, _, _, _)
FramesAtLoop(timestamps, fails, imgs, i) ==
    IF i > Len(timestamps) THEN <<>>
    ELSE (IF i \in fails THEN <<>>
          ELSE << [ path |-> <<timestamps[i], i - 1>>,
                    timestamp |-> timestamps[i],
                    img |-> imgs[i],
                    phash |-> NoneNum ] >>)
         \o FramesAtLoop(timestamps, fails, imgs, i + 1)

extract_frames_at_timestamps(timestamps, fails, imgs) ==
    FramesAtLoop(timestamps, fails, imgs, 1)

\* variant: the loop runs while current <= duration
RECURSIVE IntervalTimestampsInclusive(_, _, _)
IntervalTimestampsInclusive(current, duration, interval_seconds) ==
    IF current <= duration
    THEN <<current>> \o IntervalTimestampsInclusive(current + interval_seconds,
                                                    duration, interval_seconds)
    ELSE <<>>

\* the while loop of _extract_frames_by_interval: current = 0, 30, 60, ..
\* as long as current < duration
RECURSIVE IntervalTimestamps(_, _, _)
IntervalTimestamps(current, duration, interval_seconds) ==
    IF current < duration
    THEN <<current>> \o IntervalTimestamps(current + interval_seconds,
                                           duration, interval_seconds)
    ELSE <<>>

extract_frames_by_interval(duration, fails, imgs) ==
    extract_frames_at_timestamps(
        IntervalTimestamps(0, duration, IntervalSeconds), fails, imgs)

\* extract_keyframes: scenes are the pts_time values parsed from the scene
\* detection output; none detected -> interval extraction
KeyframeTimestamps(scenes, duration) ==
    IF scenes = <<>>
    THEN IntervalTimestamps(0, duration, IntervalSeconds)
    ELSE scenes

extract_keyframes(scenes, duration, fails, imgs) ==
    IF scenes = <<>>
    THEN extract_frames_by_interval(duration, fails, imgs)
    ELSE extract_frames_at_timestamps(scenes, fails, imgs)

\* if distance < threshold
IsDuplicate(distance, threshold) == distance < threshold

\* variant: the kept frame goes to the front of the list
RetainFront(unique, frame) == <<frame>> \o unique

\* unique_frames.append(frame)
Retain(unique, frame) == Append(unique, frame)

\* variant: a failed hash forgets the baseline
BaselineForgotten(prev_hash) == NoneNum

\* prev_hash after the except branch: it is not assigned there
BaselineAfterFailure(prev_hash) == prev_hash

\* the for loop of remove_duplicate_frames
RECURSIVE DedupLoop(_, _, _, _)
DedupLoop(frames, threshold, unique, prev_hash) ==
    IF frames = <<>> THEN unique
    ELSE LET frame == Head(frames)
             current_hash == frame.img.hash
             hashed == [frame EXCEPT !.phash = current_hash]
         IN  IF current_hash = Unreadable
             THEN \* except: keep the frame if hashing fails
                  DedupLoop(Tail(frames), threshold, Retain(unique, frame),
                            BaselineAfterFailure(prev_hash))
             ELSE IF prev_hash # NoneNum
                     /\ IsDuplicate(HammingDistance(current_hash, prev_hash),
                                    threshold)
                  THEN IF frame.img.stuck
                       THEN \* frame.path.unlink raises inside the try: the
                            \* same except branch keeps the frame
                            DedupLoop(Tail(frames), threshold,
                                      Retain(unique, hashed),
                                      BaselineAfterFailure(prev_hash))
                       ELSE \* the file is removed; continue
                            DedupLoop(Tail(frames), threshold, unique,
                                      prev_hash)
                  ELSE DedupLoop(Tail(frames), threshold,
                                 Retain(unique, hashed), current_hash)

\* variant: the baseline starts as the zero hash instead of None
remove_duplicate_frames_from_zero(frames, threshold) ==
    IF frames = <<>> THEN <<>>
    ELSE DedupLoop(frames, threshold, <<>>, 0)

remove_duplicate_frames(frames, threshold) ==
    IF frames = <<>> THEN <<>>
    ELSE DedupLoop(frames, threshold, <<>>, NoneNum)

----------------------------------------------------------------------------
(* app/core/ocr_processor.py *)

\* text of a frame whose process_image call raises
OcrFailure == <<"!">>

\* variant: the results are taken in the order given
Unsorted(results) == results

\* stable insertion of r into a list sorted by timestamp
RECURSIVE InsertByTimestamp(_, _)
InsertByTimestamp(sorted, r) ==
    IF sorted = <<>> THEN <<r>>
    ELSE IF Head(sorted).timestamp <= r.timestamp
         THEN <<Head(sorted)>> \o InsertByTimestamp(Tail(sorted), r)
         ELSE <<r>> \o sorted

\* sorted(results, key=lambda x: x.timestamp), a stable sort
RECURSIVE SortByTimestamp(_)
SortByTimestamp(results) ==
    IF results = <<>> THEN <<>>
    ELSE InsertByTimestamp(SortByTimestamp(SubSeq(results, 1, Len(results) - 1)),
                           results[Len(results)])

\* the per-image body of process_batch: texts[i] is what process_image
\* returns for image i, or OcrFailure when it raises
OcrOne(path, ts, text) ==
    IF text = OcrFailure
    THEN [ image_path |-> path, timestamp |-> ts, text |-> <<>>,
           confidence |-> 0, text_lines |-> <<>> ]
    ELSE [ image_path |-> path, timestamp |-> ts, text |-> text,
           confidence |-> IF text = <<>> THEN 0 ELSE 1,
           text_lines |-> IF text = <<>> THEN <<>> ELSE <<text>> ]

\* variant: the first failing image ends the loop
process_batch_aborting(image_paths, timestamps, texts) ==
    LET n == Cardinality({i \in 1..Len(image_paths) :
                             \A k \in 1..i : texts[k] # OcrFailure})
        results == [i \in 1..n |->
                       OcrOne(image_paths[i], timestamps[i], texts[i])]
    IN  [ results |-> SortByTimestamp(results),
          total_images |-> Len(image_paths),
          processed_images |-> n,
          failed_images |-> Len(image_paths) - n ]

process_batch(image_paths, timestamps, texts) ==
    IF image_paths = <<>>
    THEN [ results |-> <<>>, total_images |-> 0,
           processed_images |-> 0, failed_images |-> 0 ]
    ELSE LET n == IF Len(image_paths) < Len(timestamps)
                  THEN Len(image_paths) ELSE Len(timestamps)
             results == [i \in 1..n |->
                            OcrOne(image_paths[i], timestamps[i], texts[i])]
             failed_count == Cardinality({i \in 1..n : texts[i] = OcrFailure})
         IN  [ results |-> SortByTimestamp(results),
               total_images |-> Len(image_paths),
               processed_images |-> Len(image_paths) - failed_count,
               failed_images |-> failed_count ]

process_frames(frames, texts) ==
    process_batch([i \in 1..Len(frames) |-> frames[i].path],
                  [i \in 1..Len(frames) |-> frames[i].timestamp],
                  texts)

----------------------------------------------------------------------------
(* app/core/integrator.py *)

LastChapterBuffer == 60

Max(a, b) == IF a >= b THEN a ELSE b

IsSpace(c) == c = " "

\* str.strip(): leading and trailing whitespace removed
RECURSIVE LStrip(_)
LStrip(text) ==
    IF text # <<>> /\ IsSpace(Head(text)) THEN LStrip(Tail(text)) ELSE text

RECURSIVE RStrip(_)
RStrip(text) ==
    IF text # <<>> /\ IsSpace(text[Len(text)])
    THEN RStrip(SubSeq(text, 1, Len(text) - 1))
    ELSE text

Strip(text) == RStrip(LStrip(text))

\* " ".join(texts)
RECURSIVE Join(_)
Join(texts) ==
    IF texts = <<>> THEN <<>>
    ELSE IF Len(texts) = 1 THEN texts[1]
    ELSE texts[1] \o <<" ">> \o Join(Tail(texts))

\* _format_timestamp: HH:MM:SS when hours > 0, MM:SS otherwise, as the list
\* of its number fields
format_timestamp(seconds) ==
    LET hours == seconds \div 3600
        minutes == (seconds % 3600) \div 60
        secs == seconds % 60
    IN  IF hours > 0 THEN <<hours, minutes, secs>> ELSE <<minutes, secs>>

\* variant: the overlap test with the bounds included
SegmentTouchesRange(seg, start_time, end_time) ==
    seg.start <= end_time /\ seg.end >= start_time

\* variant: a segment belongs to the one range it starts in
SegmentStartsInRange(seg, start_time, end_time) ==
    seg.start >= start_time /\ seg.start < end_time

\* the overlap test of _find_speech_segments_in_range
SegmentInRange(seg, start_time, end_time) ==
    seg.start < end_time /\ seg.end > start_time

\* _find_speech_segments_in_range: the overlapping segments, in transcript
\* order, each text stripped
RECURSIVE find_speech_segments_in_range(_, _, _)
find_speech_segments_in_range(transcript_segments, start_time, end_time) ==
    IF transcript_segments = <<>> THEN <<>>
    ELSE LET seg == Head(transcript_segments)
         IN  (IF SegmentInRange(seg, start_time, end_time)
              THEN << [ start |-> seg.start, end |-> seg.end,
                        text |-> Strip(seg.text) ] >>
              ELSE <<>>)
             \o find_speech_segments_in_range(Tail(transcript_segments),
                                              start_time, end_time)

\* end of chapter i: start of the next frame, or for the last frame the
\* transcript duration but at least 60 seconds after its start
ChapterEnd(sorted_ocr, i, duration) ==
    IF i < Len(sorted_ocr)
    THEN sorted_ocr[i + 1].timestamp
    ELSE Max(duration, sorted_ocr[i].timestamp + LastChapterBuffer)

\* the Chapter built by one turn of the loop of integrate
MakeChapter(sorted_ocr, i, trans, embed_images) ==
    LET ocr_result == sorted_ocr[i]
        chapter_start == ocr_result.timestamp
        chapter_end == ChapterEnd(sorted_ocr, i, trans.duration)
        speech_segments ==
            find_speech_segments_in_range(trans.segments, chapter_start,
                                          chapter_end)
    IN  [ index |-> i - 1,
          timestamp_start |-> chapter_start,
          timestamp_end |-> chapter_end,
          timestamp_display |-> format_timestamp(chapter_start),
          frame_image |-> ocr_result.image_path,
          frame_image_base64 |-> IF embed_images THEN "data" ELSE "",
          ocr_text |-> ocr_result.text,
          speech_segments |-> speech_segments,
          speech_text |->
              Join([k \in 1..Len(speech_segments) |-> speech_segments[k].text]),
          summary |-> <<>> ]

\* variant: a chapter is made only for a frame with recognized text
integrate_texted(trans, ocr, source_file, embed_images) ==
    LET sorted_ocr == SelectSeq(SortByTimestamp(ocr.results),
                                LAMBDA r : r.text # <<>>)
    IN  [ metadata |-> [ source_file |-> source_file,
                         duration |-> trans.duration,
                         total_frames_extracted |-> Len(ocr.results) ],
          chapters |-> [i \in 1..Len(sorted_ocr) |->
                           MakeChapter(sorted_ocr, i, trans, embed_images)] ]

\* Integrator.integrate
integrate(trans, ocr, source_file, embed_images) ==
    LET sorted_ocr == SortByTimestamp(ocr.results)
    IN  [ metadata |-> [ source_file |-> source_file,
                         duration |-> trans.duration,
                         total_frames_extracted |-> Len(ocr.results) ],
          chapters |-> [i \in 1..Len(sorted_ocr) |->
                           MakeChapter(sorted_ocr, i, trans, embed_images)] ]

\* sum(len(c.speech_text) for c in chapters)
RECURSIVE SumSpeechLen(_)
SumSpeechLen(chapters) ==
    IF chapters = <<>> THEN 0
    ELSE Len(Head(chapters).speech_text) + SumSpeechLen(Tail(chapters))

----------------------------------------------------------------------------
(* Inputs: what the external tools hand to the stages *)

\* the members of a set of numbers in ascending order
RECURSIVE Ascending(_)
Ascending(S) ==
    IF S = {} THEN <<>>
    ELSE LET m == CHOOSE x \in S : \A y \in S : x <= y
         IN  <<m>> \o Ascending(S \ {m})

\* pts_time values of the detected scene changes, in stream order
SceneLists == {Ascending(S) : S \in SUBSET FrameTimes}

\* the frame files ffmpeg writes for a job: any picture of the pool, or an
\* unreadable file (kept by the duplicate removal, as a duplicate whose
\* removal raises is)
Imgs == {File(h, FALSE) : h \in HashPool \cup {Unreadable}}

\* recognizer segments
Segments ==
    {[start |-> s, end |-> e, text |-> t, confidence |-> 0] :
        s \in SegTimes, e \in SegTimes, t \in SegTexts}

SeqsUpTo(S, n) == UNION {[1..k -> S] : k \in 0..n}

\* engine-native order: ascending, one segment ending before the next starts
WellFormed(segs) ==
    /\ \A k \in 1..Len(segs) : segs[k].start < segs[k].end
    /\ \A k \in 1..Len(segs) - 1 : segs[k].end <= segs[k + 1].start

Transcriptions ==
    {[segments |-> segs, duration |-> d] :
        segs \in {x \in SeqsUpTo(Segments, MaxSegs) : WellFormed(x)},
        d \in Durations}

\* no exception has left the task
NoException == [cls |-> None, args |-> <<>>]

\* no pure function has been called on its own
NoCall == [fn |-> None]

\* the unified transcript before anything was integrated
NoUnified ==
    [metadata |-> [source_file |-> None, duration |-> NoneNum,
                   total_frames_extracted |-> NoneNum],
     chapters |-> <<>>]

\* str(e) of an exception: "" when it was built without arguments
ExcStr(e) == IF e.args = <<>> THEN "" ELSE e.args[1]

\* what the stage bodies raise: the errors the components build themselves
\* (f-string messages), and whatever an external library or tool raises
\* outside their try blocks
StageErrors(step) ==
    (CASE step = "extract_audio" ->
            {[cls |-> "RuntimeError", args |-> <<m>>] :
                m \in {"ffprobe failed: ", "No video stream found",
                       "Audio extraction failed: "}}
       [] step = "extract_frames" ->
            {[cls |-> "RuntimeError", args |-> <<"ffprobe failed: ">>]}
       [] step = "transcribe" ->
            {[cls |-> "FileNotFoundError",
              args |-> <<"Audio file not found: audio.wav">>],
             [cls |-> "RuntimeError", args |-> <<"Transcription failed: ">>]}
       [] OTHER -> {})
    \cup {[cls |-> "Exception", args |-> <<"detail">>],
          [cls |-> "MemoryError", args |-> <<>>]}

----------------------------------------------------------------------------
(* The service around the task: jobs table, queue, worker process *)

JobIds == 1..MaxJobs

\* no row with this id in the jobs table
NoJob == [status |-> None]

\* nothing was uploaded under this id.  pc is the position of the job's
\* upload and task; via is the handler that is creating the job; si and
\* frames are locals of the running task, gone when it ends; the other
\* fields are history of its last run (killed: the stage whose body was
\* running when the process was killed, "between" when none was)
NoTask ==
    [ pc |-> "absent", via |-> None, si |-> 1, exc |-> NoException,
      frames |-> NoneNum, tools |-> {}, input_missing |-> FALSE,
      soft_limit |-> "no", killed |-> "no", deliveries |-> 0 ]

\* a fresh pool process: Transcriber._model and OCRProcessor._reader are None.
\* A handle is the number of the constructor call that built it; the
\* *_used fields collect the handles the calls of this process worked with
NewProcess(pid) ==
    [ pid |-> pid,
      model |-> NoneNum, models_created |-> 0, models_used |-> {},
      reader |-> NoneNum, readers_created |-> 0, readers_used |-> {} ]

system == <<jobs, tasks, broker, worker>>

----------------------------------------------------------------------------
(* app/workers/tasks.py: process_video *)

\* values a call of update_job adds to the history of job.progress
LogProgress(log, kwargs) ==
    IF "progress" \in DOMAIN kwargs THEN Append(log, kwargs.progress) ELSE log

\* the job row as create_job left it; the task is at position p
InitAt(p) ==
    /\ job = NewJob
    /\ pc = p
    /\ si = 1
    /\ exc = NoException
    /\ video_info = [duration |-> NoneNum]
    /\ unique_frames = <<>>
    /\ transcription = [segments |-> <<>>, duration |-> NoneNum]
    /\ ocr_results = process_batch(<<>>, <<>>, <<>>)
    /\ unified = NoUnified
    /\ overall_summary = <<>>
    /\ word_count = NoneNum
    /\ progress_log = <<>>
    /\ step_log = <<>>
    /\ jobs = [j \in JobIds |-> NoJob]
    /\ tasks = [j \in JobIds |-> NoTask]
    /\ broker = <<>>
    /\ worker = NewProcess(0)

\* the upload route has created the job and queued the task
Init == InitAt("queued") /\ call = NoCall

locals == <<video_info, unique_frames, transcription, ocr_results, unified,
            overall_summary, word_count>>

\* variant: the first update_job also puts the stages back to PENDING
StartKwargsResetting ==
    [status |-> PROCESSING, celery_task_id |-> "task", started_at |-> "utcnow",
     step_extract_audio |-> PENDING, step_extract_frames |-> PENDING,
     step_transcribe |-> PENDING, step_ocr |-> PENDING,
     step_integrate |-> PENDING, step_summarize |-> PENDING,
     step_generate_html |-> PENDING]

\* the worker takes the task off the queue and runs it up to the first
\* update_job (lines 61-69)
StartKwargs ==
    [status |-> PROCESSING, celery_task_id |-> "task", started_at |-> "utcnow"]

TaskStart ==
    /\ pc = "queued"
    /\ job' = update_job(job, StartKwargs)
    /\ pc' = "next"
    /\ si' = 1
    /\ UNCHANGED <<exc, locals, progress_log, step_log, call, system>>

\* update_step(job_id, <stage>, StepStatus.PROCESSING, p)
StepProcessing ==
    /\ pc = "next"
    /\ si \in 1..7
    /\ job' = update_step(job, Steps[si], PROCESSING, ProgressProcessing[si])
    /\ progress_log' =
         LogProgress(progress_log,
                     update_step_kwargs(Steps[si], PROCESSING,
                                        ProgressProcessing[si]))
    /\ step_log' = Append(step_log, <<Steps[si], PROCESSING>>)
    /\ pc' = "running"
    /\ UNCHANGED <<si, exc, locals, call, system>>

\* variant: the task goes to the closing update one stage early
AfterCompletedEarly(i) == IF i >= 6 THEN "finishing" ELSE "next"

\* position after update_step(.., COMPLETED, ..) of stage i
AfterCompleted(i) == IF i = 7 THEN "finishing" ELSE "next"

\* update_step(job_id, <stage>, StepStatus.COMPLETED, p)
StepCompleted ==
    /\ pc = "worked"
    /\ job' = update_step(job, Steps[si], COMPLETED, ProgressCompleted[si])
    /\ progress_log' =
         LogProgress(progress_log,
                     update_step_kwargs(Steps[si], COMPLETED,
                                        ProgressCompleted[si]))
    /\ step_log' = Append(step_log, <<Steps[si], COMPLETED>>)
    /\ pc' = AfterCompleted(si)
    /\ si' = IF si = 7 THEN si ELSE si + 1
    /\ UNCHANGED <<exc, locals, call, system>>

Running(step) == pc = "running" /\ Steps[si] = step

\* Step 1: get_video_info and extract_audio (lines 81-83), for a video whose
\* probed duration is one of durations
ExtractAudioOf(durations) ==
    /\ Running("extract_audio")
    /\ \E d \in durations : video_info' = [duration |-> d]
    /\ pc' = "worked"
    /\ UNCHANGED <<job, si, exc, unique_frames, transcription, ocr_results,
                   unified, overall_summary, word_count,
                   progress_log, step_log, call, system>>

ExtractAudio == ExtractAudioOf(Durations)

\* a retained frame as the later stages read it (path and timestamp)
FrameRef(frame) == [path |-> frame.path, timestamp |-> frame.timestamp]

\* Step 2: extract_keyframes and remove_duplicate_frames (lines 93-94), for
\* a video whose detected scene changes are one of scene_lists
ExtractFramesOf(scene_lists) ==
    /\ Running("extract_frames")
    /\ \E scenes \in scene_lists :
         LET n == Len(KeyframeTimestamps(scenes, video_info.duration))
         IN  \E fails \in SUBSET (1..n), imgs \in [1..n -> Imgs] :
               LET frames == extract_keyframes(scenes, video_info.duration,
                                               fails, imgs)
                   kept == remove_duplicate_frames(frames, phash_threshold)
               IN  unique_frames' = [i \in 1..Len(kept) |-> FrameRef(kept[i])]
    /\ pc' = "extracted"
    /\ UNCHANGED <<job, si, exc, video_info, transcription, ocr_results,
                   unified, overall_summary, word_count,
                   progress_log, step_log, call, system>>

ExtractFrames == ExtractFramesOf(SceneLists)

\* update_job(job_id, total_frames=.., duration=..) (line 96)
FramesKwargs ==
    [total_frames |-> Len(unique_frames), duration |-> video_info.duration]

RecordFrames ==
    /\ pc = "extracted"
    /\ job' = update_job(job, FramesKwargs)
    /\ progress_log' = LogProgress(progress_log, FramesKwargs)
    /\ pc' = "worked"
    /\ UNCHANGED <<si, exc, locals, step_log, call, system>>

\* Step 3: Transcriber().transcribe (lines 105-110), for a video whose
\* recognized speech is one of transcriptions
TranscribeOf(transcriptions) ==
    /\ Running("transcribe")
    /\ \E t \in transcriptions : transcription' = t
    /\ pc' = "worked"
    /\ UNCHANGED <<job, si, exc, video_info, unique_frames, ocr_results,
                   unified, overall_summary, word_count,
                   progress_log, step_log, call, system>>

Transcribe == TranscribeOf(Transcriptions)

\* Step 4: OCRProcessor.process_frames(unique_frames) (lines 120-121)
Ocr ==
    /\ Running("ocr")
    /\ \E texts \in [1..Len(unique_frames) -> OcrTexts \cup {OcrFailure}] :
         ocr_results' = process_frames(unique_frames, texts)
    /\ pc' = "worked"
    /\ UNCHANGED <<job, si, exc, video_info, unique_frames, transcription,
                   unified, overall_summary, word_count,
                   progress_log, step_log, call, system>>

\* Step 5: Integrator(embed_images=True).integrate (lines 131-136)
Integrate ==
    /\ Running("integrate")
    /\ unified' = integrate(transcription, ocr_results, "input", TRUE)
    /\ pc' = "worked"
    /\ UNCHANGED <<job, si, exc, video_info, unique_frames, transcription,
                   ocr_results, overall_summary, word_count, progress_log,
                   step_log, call, system>>

----------------------------------------------------------------------------
(* app/core/summarizer.py *)

\* reply of a summarization call that raised anthropic.APIError
ApiError == <<"!">>

\* a response whose content list is empty: response.content[0] raises
\* IndexError, which is not an anthropic.APIError
EmptyContent == <<"[", "]">>

SummaryReplies == {ApiError, EmptyContent, <<" ", "S">>}

\* the exception of response.content[0] on an empty list
IndexError == [cls |-> "IndexError", args |-> <<"list index out of range">>]

\* summarize_chapter: the stripped reply, "" on APIError
summarize_chapter(reply) == IF reply = ApiError THEN <<>> ELSE Strip(reply)

\* variant: only chapters with speech count as having content
HasSpeech(chapter) == chapter.speech_text # <<>>

\* negation of the skip test: not chapter.speech_text and not chapter.ocr_text
HasContent(chapter) == chapter.speech_text # <<>> \/ chapter.ocr_text # <<>>

\* the for loop of summarize_all_chapters from chapter i on: chapters without
\* speech and OCR text are skipped; calls lists the chapters (by position)
\* summarize_chapter was called for; raised tells that a call left the loop
\* with an exception
RECURSIVE SummarizeLoop(_, _, _, _)
SummarizeLoop(chapters, replies, i, calls) ==
    IF i > Len(chapters)
    THEN [chapters |-> chapters, calls |-> calls, raised |-> FALSE]
    ELSE IF ~HasContent(chapters[i])
    THEN SummarizeLoop(chapters, replies, i + 1, calls)
    ELSE IF replies[i] = EmptyContent
    THEN [chapters |-> chapters, calls |-> Append(calls, i), raised |-> TRUE]
    ELSE SummarizeLoop(
            [chapters EXCEPT ![i].summary = summarize_chapter(replies[i])],
            replies, i + 1, Append(calls, i))

\* summarize_all_chapters: the transcript with the summaries filled in
summarize_all_chapters(u, replies) ==
    [u EXCEPT !.chapters = SummarizeLoop(u.chapters, replies, 1, <<>>).chapters]

\* generate_overall_summary makes no call when no chapter has a summary or
\* speech text
OverallSkipped(u) ==
    \A i \in 1..Len(u.chapters) :
        u.chapters[i].summary = <<>> /\ u.chapters[i].speech_text = <<>>

generate_overall_summary(u, reply) ==
    IF OverallSkipped(u) THEN <<>> ELSE summarize_chapter(reply)

\* summarize_transcript: the chapters summarized, then the overall summary;
\* raised when a call it makes gets an empty content list
summarize_transcript(u, replies, overall) ==
    LET r == SummarizeLoop(u.chapters, replies, 1, <<>>)
        summarized == [u EXCEPT !.chapters = r.chapters]
    IN  IF r.raised \/ (~OverallSkipped(summarized) /\ overall = EmptyContent)
        THEN [raised |-> TRUE, unified |-> u, overall_summary |-> <<>>]
        ELSE [raised |-> FALSE, unified |-> summarized,
              overall_summary |-> generate_overall_summary(summarized, overall)]

----------------------------------------------------------------------------
(* app/workers/tasks.py: process_video, continued *)

\* except Exception as e: update_job(.., FAILED, str(e), ..); raise
\* (lines 208-218)
FailedKwargs(e) ==
    [status |-> FAILED, error_message |-> ExcStr(e), completed_at |-> "utcnow"]

\* variant: the handler swallows the error and the stage is run again
AfterRaiseRetry == "next"

\* variant: the failed task is put back on the queue
AfterRaiseRequeue == "queued"

\* position of the task after the handler
AfterRaise == "raised"

\* what the service replies to the calls of one job, as <<per chapter,
\* overall>>: text or an APIError to each call, or empty content lists (the
\* first call made raises; whichever call it is, the task ends the same way)
JobReplies(n) ==
    {<<replies, overall>> :
        replies \in [1..n -> SummaryReplies \ {EmptyContent}],
        overall \in SummaryReplies \ {EmptyContent}}
    \cup {<<[i \in 1..n |-> EmptyContent], EmptyContent>>}

\* Step 6: summarization when an API key is configured (lines 146-151)
Summarize ==
    /\ Running("summarize")
    /\ \E api_key \in BOOLEAN :
         IF api_key
         THEN \E given \in JobReplies(Len(unified.chapters)) :
                LET out == summarize_transcript(unified, given[1], given[2])
                IN  IF out.raised
                    THEN \* the IndexError leaves summarize_transcript and
                         \* reaches the handler of process_video
                         /\ job' = update_job(job, FailedKwargs(IndexError))
                         /\ exc' = IndexError
                         /\ pc' = AfterRaise
                         /\ UNCHANGED <<unified, overall_summary>>
                    ELSE /\ unified' = out.unified
                         /\ overall_summary' = out.overall_summary
                         /\ pc' = "worked"
                         /\ UNCHANGED <<job, exc>>
         ELSE /\ unified' = unified
              /\ overall_summary' = <<>>
              /\ pc' = "worked"
              /\ UNCHANGED <<job, exc>>
    /\ UNCHANGED <<si, video_info, unique_frames, transcription,
                   ocr_results, word_count, progress_log, step_log, call, system>>

\* variant: the speech segments are counted instead of the characters
RECURSIVE SumSegments(_)
SumSegments(chapters) ==
    IF chapters = <<>> THEN 0
    ELSE Len(Head(chapters).speech_segments) + SumSegments(Tail(chapters))

WordCountSegments(u) == SumSegments(u.chapters)

\* word_count = sum(len(c.speech_text) for c in unified.chapters) (line 172)
WordCount(u) == SumSpeechLen(u.chapters)

\* Step 7: generate_and_save, then the word count (lines 161-172)
GenerateHtml ==
    /\ Running("generate_html")
    /\ word_count' = WordCount(unified)
    /\ pc' = "worked"
    /\ UNCHANGED <<job, si, exc, video_info, unique_frames, transcription,
                   ocr_results, unified, overall_summary, progress_log,
                   step_log, call, system>>

\* the closing update_job (lines 179-186)
CompleteKwargs ==
    [status |-> COMPLETED, progress |-> 100, current_step |-> None,
     word_count |-> word_count, completed_at |-> "utcnow"]

Complete ==
    /\ pc = "finishing"
    /\ job' = update_job(job, CompleteKwargs)
    /\ progress_log' = LogProgress(progress_log, CompleteKwargs)
    /\ pc' = "done"
    /\ UNCHANGED <<si, exc, locals, step_log, call, system>>

\* the body of the running stage raises e
StageRaise ==
    /\ pc = "running"
    /\ \E e \in StageErrors(Steps[si]) :
         /\ job' = update_job(job, FailedKwargs(e))
         /\ progress_log' = LogProgress(progress_log, FailedKwargs(e))
         /\ exc' = e
    /\ pc' = AfterRaise
    /\ UNCHANGED <<si, locals, step_log, call, system>>

Next ==
    \/ TaskStart
    \/ StepProcessing
    \/ ExtractAudio
    \/ ExtractFrames
    \/ RecordFrames
    \/ Transcribe
    \/ Ocr
    \/ Integrate
    \/ Summarize
    \/ GenerateHtml
    \/ StepCompleted
    \/ Complete
    \/ StageRaise

Spec == Init /\ [][Next]_vars

----------------------------------------------------------------------------
(* process_video on the lecture video: 125 seconds, one scene change at 60,
   speech "intro" from 5 to 58 and "body" from 62 to 120 *)

LectureDurations == {125}

LectureSceneLists == {<<60>>}

LectureTranscriptions ==
    { [ segments |->
          << [start |-> 5, end |-> 58, confidence |-> 0,
              text |-> <<"i", "n", "t", "r", "o">>],
             [start |-> 62, end |-> 120, confidence |-> 0,
              text |-> <<"b", "o", "d", "y">>] >>,
        duration |-> 125 ] }

LectureExtractAudio == ExtractAudioOf(LectureDurations)

LectureExtractFrames == ExtractFramesOf(LectureSceneLists)

LectureTranscribe == TranscribeOf(LectureTranscriptions)

LectureNext ==
    \/ TaskStart
    \/ StepProcessing
    \/ LectureExtractAudio
    \/ LectureExtractFrames
    \/ RecordFrames
    \/ LectureTranscribe
    \/ Ocr
    \/ Integrate
    \/ Summarize
    \/ GenerateHtml
    \/ StepCompleted
    \/ Complete
    \/ StageRaise

LectureSpec == Init /\ [][LectureNext]_vars

----------------------------------------------------------------------------
(* Integrator.integrate called on its own, on any input *)

\* timestamps of the OCR results handed to integrate, in any order
OcrTimes == {0, 15, 30}

OcrBatches ==
    {[ results |-> [i \in 1..Len(ts) |->
                      OcrOne(<<ts[i], i - 1>>, ts[i], <<"X">>)],
       total_images |-> Len(ts),
       processed_images |-> Len(ts),
       failed_images |-> 0 ] : ts \in SeqsUpTo(OcrTimes, MaxFrames)}

\* segments of any order and overlap, start <= end
CallSegments ==
    {[start |-> p[1], end |-> p[2], text |-> <<" ", "a">>, confidence |-> 0] :
        p \in {q \in SegTimes \X SegTimes : q[1] <= q[2]}}

CallTranscriptions ==
    {[segments |-> segs, duration |-> d] :
        segs \in SeqsUpTo(CallSegments, MaxSegs), d \in Durations}

\* a caller is about to call integrate(trans, ocr, "input")
IntegrateInit ==
    /\ InitAt("lib")
    /\ \E trans \in CallTranscriptions, ocr \in OcrBatches :
         call = [ fn |-> "integrate",
                  returned |-> FALSE,
                  transcription |-> trans,
                  ocr_results |-> ocr,
                  embed_images |-> FALSE,
                  unified |-> NoUnified ]

CallIntegrate ==
    /\ pc = "lib"
    /\ call.fn = "integrate"
    /\ ~call.returned
    /\ call' = [call EXCEPT
                  !.returned = TRUE,
                  !.unified = integrate(call.transcription, call.ocr_results,
                                        "input", call.embed_images)]
    /\ UNCHANGED <<job, pc, si, exc, locals, progress_log, step_log,
                   system>>

IntegrateNext == CallIntegrate

IntegrateSpec == IntegrateInit /\ [][IntegrateNext]_vars

----------------------------------------------------------------------------
(* VideoProcessor.remove_duplicate_frames called on its own *)

\* hashes of the pictures handed to the duplicate removal (5 bits)
DedupHashes == {0, 3, 7, 24}

\* the files of the frames: any of the pictures or an unreadable file, and
\* one picture whose file cannot be removed
DedupFiles ==
    {File(h, FALSE) : h \in DedupHashes \cup {Unreadable}} \cup {File(3, TRUE)}

\* thresholds a caller passes; the configured default among them
Thresholds == {0, 3, 4, phash_threshold}

\* frames as _extract_frames_at_timestamps builds them, 15 seconds apart,
\* in chronological order or in the reverse of it
DedupFrames(files, reversed) ==
    [i \in 1..Len(files) |->
        LET ts == IF reversed THEN 15 * (Len(files) - i) ELSE 15 * (i - 1)
        IN  [ path |-> <<ts, i - 1>>, timestamp |-> ts, img |-> files[i],
              phash |-> NoneNum ]]

\* a caller is about to call remove_duplicate_frames(frames, t), and for
\* comparison the same call with a threshold t2 >= t
DedupInit ==
    /\ InitAt("lib")
    /\ \E files \in SeqsUpTo(DedupFiles, MaxDedupFrames), reversed \in BOOLEAN,
          t \in Thresholds, t2 \in Thresholds :
         /\ t <= t2
         /\ call = [ fn |-> "remove_duplicate_frames",
                     returned |-> FALSE,
                     frames |-> DedupFrames(files, reversed),
                     threshold |-> t,
                     threshold2 |-> t2,
                     unique_frames |-> <<>>,
                     unique_frames2 |-> <<>> ]

CallDedup ==
    /\ pc = "lib"
    /\ call.fn = "remove_duplicate_frames"
    /\ ~call.returned
    /\ call' = [call EXCEPT
                  !.returned = TRUE,
                  !.unique_frames =
                      remove_duplicate_frames(call.frames, call.threshold),
                  !.unique_frames2 =
                      remove_duplicate_frames(call.frames, call.threshold2)]
    /\ UNCHANGED <<job, pc, si, exc, locals, progress_log, step_log,
                   system>>

DedupNext == CallDedup

DedupSpec == DedupInit /\ [][DedupNext]_vars

----------------------------------------------------------------------------
(* VideoProcessor.extract_keyframes called on its own *)

\* pts_time values the scene detection can report
KeyScenes == {10, 60, 100}

\* durations ffprobe can report
KeyDurations == {0, 30, 31, 60, 125}

\* a caller is about to call extract_keyframes(): scenes are the detected
\* scene changes, fails the positions whose ffmpeg frame extraction fails
KeyframesInit ==
    /\ InitAt("lib")
    /\ \E S \in SUBSET KeyScenes, d \in KeyDurations :
         \E fails \in SUBSET (1..Len(KeyframeTimestamps(Ascending(S), d))) :
            call = [ fn |-> "extract_keyframes",
                     returned |-> FALSE,
                     scenes |-> Ascending(S),
                     duration |-> d,
                     fails |-> fails,
                     frames |-> <<>> ]

CallKeyframes ==
    /\ pc = "lib"
    /\ call.fn = "extract_keyframes"
    /\ ~call.returned
    /\ call' = [call EXCEPT
                  !.returned = TRUE,
                  !.frames =
                      extract_keyframes(
                          call.scenes, call.duration, call.fails,
                          [i \in 1..Len(KeyframeTimestamps(call.scenes,
                                                           call.duration))
                              |-> File(0, FALSE)])]
    /\ UNCHANGED <<job, pc, si, exc, locals, progress_log, step_log,
                   system>>

KeyframesNext == CallKeyframes

KeyframesSpec == KeyframesInit /\ [][KeyframesNext]_vars

----------------------------------------------------------------------------
(* OCRProcessor.process_batch called on its own *)

\* a caller is about to call process_batch(image_paths, timestamps) with one
\* timestamp per image, in any order; texts[i] is what process_image gives
\* for image i, OcrFailure when it raises
OcrInit ==
    /\ InitAt("lib")
    /\ \E ts \in SeqsUpTo(OcrTimes, MaxFrames) :
         \E texts \in [1..Len(ts) -> OcrTexts \cup {OcrFailure}] :
            call = [ fn |-> "process_batch",
                     returned |-> FALSE,
                     image_paths |-> [i \in 1..Len(ts) |-> <<ts[i], i - 1>>],
                     timestamps |-> ts,
                     texts |-> texts,
                     result |-> process_batch(<<>>, <<>>, <<>>) ]

CallProcessBatch ==
    /\ pc = "lib"
    /\ call.fn = "process_batch"
    /\ ~call.returned
    /\ call' = [call EXCEPT
                  !.returned = TRUE,
                  !.result = process_batch(call.image_paths, call.timestamps,
                                           call.texts)]
    /\ UNCHANGED <<job, pc, si, exc, locals, progress_log, step_log,
                   system>>

OcrNext == CallProcessBatch

OcrSpec == OcrInit /\ [][OcrNext]_vars

----------------------------------------------------------------------------
(* Summarizer.summarize_all_chapters called on its own *)

\* speech text and OCR text of a chapter
ChapterTexts == {<<>>, <<"a">>}

\* a chapter as integrate builds it, 15 seconds long, not yet summarized
SummaryChapter(i, speech, ocr) ==
    [ index |-> i - 1,
      timestamp_start |-> 15 * (i - 1),
      timestamp_end |-> 15 * i,
      timestamp_display |-> format_timestamp(15 * (i - 1)),
      frame_image |-> <<15 * (i - 1), i - 1>>,
      frame_image_base64 |-> "",
      ocr_text |-> ocr,
      speech_segments |-> <<>>,
      speech_text |-> speech,
      summary |-> <<>> ]

\* a caller is about to call summarize_all_chapters(unified); replies[i] is
\* what a call for chapter i would get from the service
SummarizeInit ==
    /\ InitAt("lib")
    /\ \E n \in 0..MaxFrames :
         \E speech \in [1..n -> ChapterTexts], ocr \in [1..n -> ChapterTexts],
            replies \in [1..n -> SummaryReplies] :
            call = [ fn |-> "summarize_all_chapters",
                     returned |-> FALSE,
                     raised |-> FALSE,
                     chapters |-> [i \in 1..n |->
                                     SummaryChapter(i, speech[i], ocr[i])],
                     replies |-> replies,
                     calls |-> <<>>,
                     summarized |-> <<>> ]

\* the call returns, or leaves with the exception of one of its calls
CallSummarizeAll ==
    /\ pc = "lib"
    /\ call.fn = "summarize_all_chapters"
    /\ ~call.returned
    /\ ~call.raised
    /\ LET r == SummarizeLoop(call.chapters, call.replies, 1, <<>>)
       IN  call' = [call EXCEPT
                      !.returned = ~r.raised,
                      !.raised = r.raised,
                      !.calls = r.calls,
                      !.summarized = r.chapters]
    /\ UNCHANGED <<job, pc, si, exc, locals, progress_log, step_log,
                   system>>

SummarizeNext == CallSummarizeAll

SummarizeSpec == SummarizeInit /\ [][SummarizeNext]_vars

----------------------------------------------------------------------------
(* The service: uploads, the queue and the worker (app/api/routes.py,
   app/workers/watcher.py, app/workers/celery_app.py, app/workers/tasks.py).
   The stage bodies are reduced to what the service sees of them: the tools
   they start, whether a frame was retained, the caches they touch, and how
   they end. *)

\* the variables of the one-job pipeline, which the service leaves alone
pipeline == <<job, pc, si, exc, locals, progress_log, step_log, call>>

\* variant: the worker runs two tasks side by side
worker_concurrency_two == 1 + 1

\* worker_concurrency=1
worker_concurrency == 1

\* variant: acks_late, the message of a killed task returns to the queue
task_acks_late_on == TRUE

\* the task is declared without acks_late: its message is acknowledged when
\* the worker starts it, and a task that dies is not delivered again
task_acks_late == FALSE

\* the task of job j is between its first update_job and its last
Executing(j) ==
    tasks[j].pc \in {"next", "running", "extracted", "worked", "finishing"}

\* create_job(job_id, filename): the row with the column defaults.  Job ids
\* are fresh uuids; the model hands them out in order
CreateJob(j, via) ==
    /\ tasks[j].pc = "absent"
    /\ \A k \in JobIds : k < j => tasks[k].pc # "absent"
    /\ jobs' = [jobs EXCEPT ![j] = NewJob]
    /\ tasks' = [tasks EXCEPT ![j].pc = "created", ![j].via = via]
    /\ UNCHANGED <<broker, worker, pipeline>>

\* variant: the handler marks the job FAILED before it answers 500
upload_failed_marking(row) == update_job(row, [status |-> FAILED])

\* upload_video, except Exception: the error is logged and answered with
\* HTTP 500; the row create_job committed is left as it is
upload_failed(row) == row

\* _process_video, except Exception around delay: the error is logged
task_queue_failed(row) == row

\* process_video.delay(job_id, filename): the message reaches the broker, or
\* delay raises (broker unreachable) and the except branch runs
Enqueue(j, via) ==
    /\ tasks[j].pc = "created"
    /\ tasks[j].via = via
    /\ \E sent \in BOOLEAN :
         IF sent
         THEN /\ broker' = Append(broker, j)
              /\ tasks' = [tasks EXCEPT ![j].pc = "queued", ![j].via = None]
              /\ jobs' = jobs
         ELSE /\ broker' = broker
              /\ tasks' = [tasks EXCEPT ![j].pc = "unsent", ![j].via = None]
              /\ jobs' = [jobs EXCEPT ![j] =
                            IF via = "upload" THEN upload_failed(@)
                            ELSE task_queue_failed(@)]
    /\ UNCHANGED <<worker, pipeline>>

\* upload_video: create_job (line 140), then process_video.delay (line 143)
UploadCreate(j) == CreateJob(j, "upload")
UploadDelay(j) == Enqueue(j, "upload")

\* FolderWatcher._process_video: create_job, then process_video.delay
WatcherCreate(j) == CreateJob(j, "watcher")
WatcherDelay(j) == Enqueue(j, "watcher")

\* the worker takes the oldest message when a pool slot is free and
\* process_video runs up to its first update_job, whatever the job's status
Start(j) ==
    /\ broker # <<>>
    /\ Head(broker) = j
    /\ Cardinality({k \in JobIds : Executing(k)}) < worker_concurrency
    /\ broker' = Tail(broker)
    /\ jobs' = [jobs EXCEPT ![j] = update_job(@, StartKwargs)]
    /\ tasks' = [tasks EXCEPT ![j] =
                   [@ EXCEPT !.pc = "next", !.si = 1, !.exc = NoException,
                             !.frames = NoneNum, !.tools = {},
                             !.input_missing = FALSE, !.soft_limit = "no",
                             !.deliveries = @ + 1]]
    /\ UNCHANGED <<worker, pipeline>>

\* update_step(job_id, <stage>, StepStatus.PROCESSING, p)
BeginStage(j) ==
    /\ tasks[j].pc = "next"
    /\ jobs' = [jobs EXCEPT ![j] =
                  update_step(@, Steps[tasks[j].si], PROCESSING,
                              ProgressProcessing[tasks[j].si])]
    /\ tasks' = [tasks EXCEPT ![j].pc = "running"]
    /\ UNCHANGED <<broker, worker, pipeline>>

\* update_step(job_id, <stage>, StepStatus.COMPLETED, p)
EndStage(j) ==
    /\ tasks[j].pc = "worked"
    /\ jobs' = [jobs EXCEPT ![j] =
                  update_step(@, Steps[tasks[j].si], COMPLETED,
                              ProgressCompleted[tasks[j].si])]
    /\ tasks' = [tasks EXCEPT
                   ![j].pc = AfterCompleted(tasks[j].si),
                   ![j].si = IF @ = 7 THEN @ ELSE @ + 1]
    /\ UNCHANGED <<broker, worker, pipeline>>

\* the closing update_job; the reduced bodies recognize no speech
Finish(j) ==
    /\ tasks[j].pc = "finishing"
    /\ jobs' = [jobs EXCEPT ![j] =
                  update_job(@, [CompleteKwargs EXCEPT !.word_count = 0])]
    /\ tasks' = [tasks EXCEPT ![j].pc = "done", ![j].si = 1,
                              ![j].frames = NoneNum]
    /\ UNCHANGED <<broker, worker, pipeline>>

RunningStage(j, step) ==
    tasks[j].pc = "running" /\ Steps[tasks[j].si] = step

\* the task after the handler of process_video caught e
Raised(t, e) ==
    [t EXCEPT !.pc = AfterRaise, !.exc = e, !.si = 1, !.frames = NoneNum]

\* the job row after the handler of process_video caught e
Failed(row, e) == update_job(row, FailedKwargs(e))

\* what ffprobe makes of an input file that is not in the job directory
FfprobeFailed == [cls |-> "RuntimeError", args |-> <<"ffprobe failed: ">>]

\* Step 1: VideoProcessor(input_path, ..), get_video_info, extract_audio
\* (lines 81-83).  Nothing looks for the input file before ffprobe is run
\* on it
ExtractAudioBody(j) ==
    /\ RunningStage(j, "extract_audio")
    /\ \E present \in BOOLEAN :
         IF present
         THEN /\ tasks' = [tasks EXCEPT
                             ![j].pc = "worked",
                             ![j].tools = @ \cup {"ffprobe", "ffmpeg"}]
              /\ jobs' = jobs
         ELSE /\ tasks' = [tasks EXCEPT ![j] =
                             Raised([@ EXCEPT !.tools = @ \cup {"ffprobe"},
                                              !.input_missing = TRUE],
                                    FfprobeFailed)]
              /\ jobs' = [jobs EXCEPT ![j] = Failed(@, FfprobeFailed)]
    /\ UNCHANGED <<broker, worker, pipeline>>

\* Step 2: extract_keyframes and remove_duplicate_frames (lines 93-94): no
\* frame or one frame is retained.  A frame whose hashing was interrupted by
\* an exception is retained
ExtractFramesBody(j) ==
    /\ RunningStage(j, "extract_frames")
    /\ \E n \in {0, 1} :
         /\ tasks[j].soft_limit = "swallowed" => n > 0
         /\ tasks' = [tasks EXCEPT ![j].pc = "extracted",
                                   ![j].frames = n,
                                   ![j].tools = @ \cup {"ffmpeg"}]
    /\ UNCHANGED <<jobs, broker, worker, pipeline>>

\* update_job(job_id, total_frames=.., duration=..) (line 96), for a video of
\* 40 seconds
RecordTotalFrames(j) ==
    /\ tasks[j].pc = "extracted"
    /\ jobs' = [jobs EXCEPT ![j] =
                  update_job(@, [total_frames |-> tasks[j].frames,
                                 duration |-> 40])]
    /\ tasks' = [tasks EXCEPT ![j].pc = "worked"]
    /\ UNCHANGED <<broker, worker, pipeline>>

\* variant: a model is built on every call
get_model_uncached(w) ==
    [w EXCEPT !.model = w.models_created + 1, !.models_created = @ + 1]

\* Transcriber._get_model: the class-level model, built when it is None
get_model(w) ==
    IF w.model = NoneNum
    THEN [w EXCEPT !.model = w.models_created + 1, !.models_created = @ + 1]
    ELSE w

\* OCRProcessor._get_reader: the class-level reader, built when it is None
get_reader(w) ==
    IF w.reader = NoneNum
    THEN [w EXCEPT !.reader = w.readers_created + 1, !.readers_created = @ + 1]
    ELSE w

\* what the constructor of a model raises when the model cannot be loaded
LoadError == [cls |-> "Exception", args |-> <<"detail">>]

\* Step 3: Transcriber().transcribe (lines 105-110): _get_model, then the
\* recognition.  A constructor that raises leaves the cache empty
TranscribeBody(j) ==
    /\ RunningStage(j, "transcribe")
    /\ \E loads \in BOOLEAN :
         IF loads \/ worker.model # NoneNum
         THEN LET w == get_model(worker)
              IN  /\ worker' = [w EXCEPT !.models_used = @ \cup {w.model}]
                  /\ tasks' = [tasks EXCEPT ![j].pc = "worked",
                                            ![j].tools = @ \cup {"whisper"}]
                  /\ jobs' = jobs
         ELSE /\ worker' = worker
              /\ tasks' = [tasks EXCEPT ![j] = Raised(@, LoadError)]
              /\ jobs' = [jobs EXCEPT ![j] = Failed(@, LoadError)]
    /\ UNCHANGED <<broker, pipeline>>

\* Step 4: OCRProcessor.process_frames (lines 120-121): process_batch
\* returns before _get_reader when there is no image
OcrBody(j) ==
    /\ RunningStage(j, "ocr")
    /\ IF tasks[j].frames = 0
       THEN /\ worker' = worker
            /\ tasks' = [tasks EXCEPT ![j].pc = "worked"]
            /\ jobs' = jobs
       ELSE \E loads \in BOOLEAN :
              IF loads \/ worker.reader # NoneNum
              THEN LET w == get_reader(worker)
                   IN  /\ worker' =
                            [w EXCEPT !.readers_used = @ \cup {w.reader}]
                       /\ tasks' = [tasks EXCEPT
                                      ![j].pc = "worked",
                                      ![j].tools = @ \cup {"easyocr"}]
                       /\ jobs' = jobs
              ELSE /\ worker' = worker
                   /\ tasks' = [tasks EXCEPT ![j] = Raised(@, LoadError)]
                   /\ jobs' = [jobs EXCEPT ![j] = Failed(@, LoadError)]
    /\ UNCHANGED <<broker, pipeline>>

\* Steps 5 to 7: integrate, summarize, generate_html
LaterBody(j) ==
    /\ tasks[j].pc = "running"
    /\ Steps[tasks[j].si] \in {"integrate", "summarize", "generate_html"}
    /\ tasks' = [tasks EXCEPT ![j].pc = "worked"]
    /\ UNCHANGED <<jobs, broker, worker, pipeline>>

\* an error of the running stage's body
BodyError == [cls |-> "Exception", args |-> <<"detail">>]

\* the body of the running stage raises and the handler of process_video
\* runs (lines 208-218)
FailStage(j) ==
    /\ tasks[j].pc = "running"
    /\ tasks' = [tasks EXCEPT ![j] = Raised(@, BodyError)]
    /\ jobs' = [jobs EXCEPT ![j] = Failed(@, BodyError)]
    /\ UNCHANGED <<broker, worker, pipeline>>

\* the exception the worker raises inside the task at the soft time limit;
\* its str() is the class name followed by its arguments
SoftTimeLimitExceeded ==
    [cls |-> "SoftTimeLimitExceeded", args |-> <<"SoftTimeLimitExceeded()">>]

\* the places of the running stage where an exception is caught before it
\* reaches process_video: the try around the hashing of a frame
\* (remove_duplicate_frames, except Exception) and the try around
\* process_image (process_batch, except Exception), entered once per frame
Swallows(t) ==
    IF \/ Steps[t.si] = "extract_frames"
       \/ (Steps[t.si] = "ocr" /\ t.frames > 0)
    THEN BOOLEAN
    ELSE {FALSE}

\* task_soft_time_limit=3300: SoftTimeLimitExceeded is raised at whatever
\* statement the running stage is executing
SoftLimit(j) ==
    /\ tasks[j].pc = "running"
    /\ tasks[j].soft_limit = "no"
    /\ \E swallowed \in Swallows(tasks[j]) :
         IF swallowed
         THEN /\ tasks' = [tasks EXCEPT ![j].soft_limit = "swallowed"]
              /\ jobs' = jobs
         ELSE /\ tasks' = [tasks EXCEPT ![j] =
                             Raised([@ EXCEPT !.soft_limit = "raised"],
                                    SoftTimeLimitExceeded)]
              /\ jobs' = [jobs EXCEPT ![j] = Failed(@, SoftTimeLimitExceeded)]
    /\ UNCHANGED <<broker, worker, pipeline>>

\* task_time_limit=3600, or a crash of the worker: the pool process is
\* killed at whatever point the task has reached and a new process, with
\* empty caches, takes its place
HardKill(j) ==
    /\ Executing(j)
    /\ worker.pid < MaxKills
    /\ tasks' = [tasks EXCEPT
                   ![j].pc = IF task_acks_late THEN "queued" ELSE "killed",
                   ![j].si = 1,
                   ![j].frames = NoneNum,
                   ![j].killed =
                       IF tasks[j].pc \in {"running", "extracted"}
                       THEN Steps[tasks[j].si]
                       ELSE "between"]
    /\ broker' = IF task_acks_late THEN Append(broker, j) ELSE broker
    /\ worker' = NewProcess(worker.pid + 1)
    /\ UNCHANGED <<jobs, pipeline>>

\* the broker hands the message of a task that has ended to the worker again
Redeliver(j) ==
    /\ tasks[j].pc \in {"done", AfterRaise, "killed"}
    /\ tasks[j].deliveries < MaxDeliveries
    /\ broker' = Append(broker, j)
    /\ tasks' = [tasks EXCEPT ![j].pc = "queued"]
    /\ UNCHANGED <<jobs, worker, pipeline>>

ServiceInit == InitAt("service") /\ call = NoCall

\* the steps that concern job j
ServiceStep(j) ==
    \/ UploadCreate(j)
    \/ UploadDelay(j)
    \/ WatcherCreate(j)
    \/ WatcherDelay(j)
    \/ Start(j)
    \/ BeginStage(j)
    \/ ExtractAudioBody(j)
    \/ ExtractFramesBody(j)
    \/ RecordTotalFrames(j)
    \/ TranscribeBody(j)
    \/ OcrBody(j)
    \/ LaterBody(j)
    \/ EndStage(j)
    \/ Finish(j)
    \/ FailStage(j)
    \/ SoftLimit(j)
    \/ HardKill(j)

ServiceNext == \E j \in JobIds : ServiceStep(j)

\* every message is delivered once
ServiceSpec == ServiceInit /\ [][ServiceNext]_vars

\* the first job alone, with a broker that may deliver its message again
RedeliveryNext == ServiceStep(1) \/ Redeliver(1)

RedeliverySpec == ServiceInit /\ [][RedeliveryNext]_vars

----------------------------------------------------------------------------
(* Properties *)

\* the stage order the specification gives
StageOrder == <<"extract_audio", "extract_frames", "transcribe", "ocr",
                "integrate", "summarize", "generate_html">>

\* the job column of each stage of that order
StageField == [i \in 1..7 |-> StepField(StageOrder[i])]

StageStatus(i) == job[StageField[i]]

IsPrefix(a, b) == Len(a) <= Len(b) /\ \A k \in DOMAIN a : a[k] = b[k]

\* each value is at least the one before it
NonDecreasing(log) == \A k \in 1..(Len(log) - 1) : log[k] <= log[k + 1]

Checkpoints == <<5, 10, 15, 25, 30, 50, 55, 70, 75, 80, 82, 90, 92, 100>>

\* C1: once a stage has raised and process_video has handled the error, the
\* status of that stage is FAILED (not PROCESSING).
C1_FailedStageMarkedFailed ==
    pc = "raised" => job[StepField(Steps[si])] = FAILED

\* C2: once a stage has raised, the job is FAILED, its error_message is set
\* and not empty, and the exception has been re-raised to the dispatcher.
C2_FailedWithMessageAndReraised ==
    pc = "raised" =>
        /\ job.status = FAILED
        /\ job.error_message # None
        /\ job.error_message # ""
        /\ exc # NoException

\* C3: no stage enters PROCESSING twice in a task run, and after a stage has
\* raised the failed stage is the last one touched: every later stage is
\* still PENDING and was never written, and nothing was completed after it.
C3_FailFastNoRetry ==
    /\ \A a \in DOMAIN step_log :
         step_log[a][2] = PROCESSING =>
            \A b \in (a + 1)..Len(step_log) : step_log[b] # step_log[a]
    /\ pc = "raised" =>
         /\ Len(step_log) = 2 * si - 1
         /\ step_log[Len(step_log)] = <<Steps[si], PROCESSING>>
         /\ job[StepField(Steps[si])] # COMPLETED
         /\ \A i \in (si + 1)..7 :
              /\ job[StepField(Steps[i])] = PENDING
              /\ \A k \in DOMAIN step_log : step_log[k][1] # Steps[i]

C3_Witness == pc = "raised" /\ si = 3 /\ job.step_ocr = PENDING

\* C4: the job status changes only QUEUED -> PROCESSING,
\* PROCESSING -> COMPLETED and PROCESSING -> FAILED; COMPLETED and FAILED
\* are final and QUEUED is never entered again.
JobStatusStep ==
    \/ job'.status = job.status
    \/ job.status = QUEUED /\ job'.status = PROCESSING /\ pc = "queued"
    \/ job.status = PROCESSING /\ job'.status \in {COMPLETED, FAILED}

C4_JobStatusTransitions == [][JobStatusStep]_vars

C4_Witness == job.status = FAILED /\ pc = "raised" /\ si = 7

\* C5: the stages run in the fixed order: the stage writes are a prefix of
\* PROCESSING, COMPLETED of each stage in that order, every stage status is
\* the last one written for it (PENDING if none), and while a stage is
\* PROCESSING all earlier stages are COMPLETED and all later ones PENDING.
CanonicalStepLog ==
    [k \in 1..14 |->
        <<StageOrder[(k + 1) \div 2],
          IF k % 2 = 1 THEN PROCESSING ELSE COMPLETED>>]

C5_StagesInFixedOrder ==
    /\ IsPrefix(step_log, CanonicalStepLog)
    /\ \A i \in 1..7 :
         StageStatus(i) = (IF 2 * i <= Len(step_log) THEN COMPLETED
                           ELSE IF 2 * i - 1 <= Len(step_log) THEN PROCESSING
                           ELSE PENDING)
    /\ \A i \in 1..7 :
         StageStatus(i) = PROCESSING =>
            /\ \A j \in 1..(i - 1) : StageStatus(j) = COMPLETED
            /\ \A j \in (i + 1)..7 : StageStatus(j) = PENDING

C5_Witness ==
    /\ job.step_ocr = PROCESSING
    /\ job.step_transcribe = COMPLETED
    /\ job.step_integrate = PENDING

\* C6 as stated: in a run without a failure the progress values written to
\* the job are exactly the fourteen checkpoints, and progress never decreases.
C6_ProgressWritesAreCheckpoints ==
    /\ pc = "done" => progress_log = Checkpoints
    /\ NonDecreasing(progress_log)

\* C6 as amended: the fourteen stage updates write exactly the checkpoints,
\* the closing update_job writes 100 once more, the job's progress is always
\* the last value written (0 before the first), and it never decreases.
C6_ProgressCheckpointsThenHundred ==
    /\ pc = "finishing" => progress_log = Checkpoints
    /\ pc = "done" => progress_log = Checkpoints \o <<100>>
    /\ pc \notin {"finishing", "done"} =>
          /\ IsPrefix(progress_log, Checkpoints)
          /\ Len(progress_log) < Len(Checkpoints)
    /\ job.progress = IF progress_log = <<>> THEN 0
                      ELSE progress_log[Len(progress_log)]
    /\ NonDecreasing(progress_log)

C6_Witness == pc = "done" /\ Len(progress_log) = 15 /\ job.progress = 100

\* C7: a COMPLETED job has all seven stages COMPLETED and progress 100.
C7_CompletedMeansAllStagesCompleted ==
    job.status = COMPLETED =>
        /\ \A i \in 1..7 : StageStatus(i) = COMPLETED
        /\ job.progress = 100

C7_Witness == job.status = COMPLETED /\ job.step_generate_html = COMPLETED

\* C8: after all seven stages succeeded the job is COMPLETED with progress
\* 100, no current step, the probed duration, the number of frames kept by
\* the duplicate removal, and the summed character length of the chapters'
\* speech text as word count.
C8_CompletedJobMetadata ==
    pc = "done" =>
        /\ job.status = COMPLETED
        /\ job.progress = 100
        /\ job.current_step = None
        /\ job.duration = video_info.duration
        /\ job.total_frames = Len(unique_frames)
        /\ job.word_count = SumSpeechLen(unified.chapters)

\* two frames kept, and a chapter whose speech text joins two segments
C8_Witness ==
    /\ pc = "done"
    /\ job.total_frames = 2
    /\ job.duration = 80
    /\ \E i \in DOMAIN unified.chapters :
         Len(unified.chapters[i].speech_segments) = 2
    /\ job.word_count > 2

\* C9: integrate called with n >= 1 OCR results returns n chapters ordered by
\* start time, each ending where the next starts, the last one ending at
\* max(duration, last frame timestamp + 60), which is at least the duration.
MaxTimestamp(results) ==
    CHOOSE t \in {results[i].timestamp : i \in DOMAIN results} :
        \A i \in DOMAIN results : results[i].timestamp <= t

C9_ChaptersGaplessAndCovering ==
    (call.fn = "integrate" /\ call.returned
        /\ Len(call.ocr_results.results) >= 1) =>
        LET c == call.unified.chapters
            n == Len(call.ocr_results.results)
            duration == call.transcription.duration
        IN  /\ Len(c) = n
            /\ \A i \in 1..(n - 1) :
                 /\ c[i].timestamp_start <= c[i + 1].timestamp_start
                 /\ c[i].timestamp_end = c[i + 1].timestamp_start
            /\ c[n].timestamp_end =
                 Max(duration,
                     MaxTimestamp(call.ocr_results.results) + LastChapterBuffer)
            /\ c[n].timestamp_end >= duration

\* results given out of order, and a duration beyond the 60 second buffer
C9_Witness ==
    /\ call.fn = "integrate"
    /\ call.returned
    /\ Len(call.ocr_results.results) = 3
    /\ call.ocr_results.results[1].timestamp = 15
    /\ call.ocr_results.results[2].timestamp = 0
    /\ call.ocr_results.results[3].timestamp = 15
    /\ call.unified.chapters[3].timestamp_end = call.transcription.duration
    /\ call.transcription.duration > 15 + LastChapterBuffer

\* C10: a chapter holds exactly the segments with start < chapter end and
\* end > chapter start, in transcript order, so a segment across a chapter
\* boundary is held by both chapters.
OverlappingSegments(segs, c) ==
    SelectSeq(segs, LAMBDA g :
                  g.start < c.timestamp_end /\ g.end > c.timestamp_start)

C10_OpenOverlapMembership ==
    (call.fn = "integrate" /\ call.returned) =>
        \A i \in DOMAIN call.unified.chapters :
            LET c == call.unified.chapters[i]
                o == OverlappingSegments(call.transcription.segments, c)
            IN  /\ Len(c.speech_segments) = Len(o)
                /\ \A k \in 1..Len(o) :
                     /\ c.speech_segments[k].start = o[k].start
                     /\ c.speech_segments[k].end = o[k].end

\* segment (10, 20) with frames at 0, 15, 30: in [0,15) and in [15,30)
C10_Witness ==
    /\ call.fn = "integrate"
    /\ call.returned
    /\ Len(call.ocr_results.results) = 3
    /\ \A i \in 1..3 : call.ocr_results.results[i].timestamp = 15 * (i - 1)
    /\ Len(call.transcription.segments) = 1
    /\ call.transcription.segments[1].start = 10
    /\ call.transcription.segments[1].end = 20
    /\ Len(call.unified.chapters[1].speech_segments) = 1
    /\ Len(call.unified.chapters[2].speech_segments) = 1
    /\ call.unified.chapters[3].speech_segments = <<>>

\* chapter c holds segment g
Holds(c, g) ==
    \E m \in DOMAIN c.speech_segments :
        c.speech_segments[m].start = g.start /\ c.speech_segments[m].end = g.end

\* C28: of the segments given to integrate, each one with start < end that
\* overlaps [first frame timestamp, last chapter end) is held by some
\* chapter, and each one that ends at or before the first frame's timestamp
\* is held by none.
C28_SpeechFromFirstFrameOn ==
    (call.fn = "integrate" /\ call.returned
        /\ Len(call.ocr_results.results) >= 1) =>
        LET c == call.unified.chapters
            first == c[1].timestamp_start
            last == c[Len(c)].timestamp_end
            segs == call.transcription.segments
        IN  \A k \in DOMAIN segs :
                /\ (segs[k].start < segs[k].end /\ segs[k].start < last
                        /\ segs[k].end > first) =>
                       \E i \in DOMAIN c : Holds(c[i], segs[k])
                /\ segs[k].end <= first =>
                       \A i \in DOMAIN c : ~Holds(c[i], segs[k])

\* frames at 15 and 30: the segment (0, 10) is in no chapter, the segment
\* (10, 20) is in the first
C28_Witness ==
    /\ call.fn = "integrate"
    /\ call.returned
    /\ Len(call.ocr_results.results) = 2
    /\ call.ocr_results.results[1].timestamp = 30
    /\ call.ocr_results.results[2].timestamp = 15
    /\ Len(call.transcription.segments) = 2
    /\ call.transcription.segments[1].start = 0
    /\ call.transcription.segments[1].end = 10
    /\ call.transcription.segments[2].start = 10
    /\ call.transcription.segments[2].end = 20
    /\ Len(call.unified.chapters[1].speech_segments) = 1
    /\ call.unified.chapters[2].speech_segments = <<>>


----------------------------------------------------------------------------
(* Properties of remove_duplicate_frames, under DedupSpec *)

DedupReturned == call.fn = "remove_duplicate_frames" /\ call.returned

\* path and timestamp of each frame of a list
Refs(frames) == [i \in 1..Len(frames) |-> <<frames[i].path, frames[i].timestamp>>]

\* the input positions of the frames kept by the call
KeptAt(frames, kept) ==
    {i \in 1..Len(frames) : \E k \in 1..Len(kept) : kept[k].path = frames[i].path}

AllReadable(frames) ==
    \A i \in 1..Len(frames) : frames[i].img.hash # Unreadable

\* position of the frame retained most recently before position i (0: none)
LastKeptBefore(K, i) ==
    IF \E j \in K : j < i
    THEN CHOOSE j \in K : j < i /\ \A m \in K : m < i => m <= j
    ELSE 0

\* C12: with thresholds t <= t2 on the same frames, the call with t drops no
\* more frames than the call with t2.
C12_DropsMonotoneInThreshold ==
    DedupReturned =>
        Len(call.frames) - Len(call.unique_frames)
            <= Len(call.frames) - Len(call.unique_frames2)

\* C13: on frames that can all be hashed, the first frame is retained and
\* every later frame is dropped exactly when its hash is closer than the
\* threshold to the hash of the frame retained most recently before it.
C13_DroppedIffNearLastRetained ==
    (DedupReturned /\ AllReadable(call.frames)) =>
        LET f == call.frames
            K == KeptAt(f, call.unique_frames)
        IN  /\ Len(call.unique_frames) = Cardinality(K)
            /\ \A i \in 1..Len(f) :
                 LET j == LastKeptBefore(K, i)
                 IN  (i \notin K) <=>
                        (j # 0 /\ HammingDistance(f[i].img.hash, f[j].img.hash)
                                    < call.threshold)

\* a run of near-duplicates: every frame hashed, each closer than the
\* threshold to the frame before it
NearRun ==
    /\ DedupReturned
    /\ Len(call.frames) >= 1
    /\ AllReadable(call.frames)
    /\ \A i \in 1..(Len(call.frames) - 1) :
         HammingDistance(call.frames[i].img.hash, call.frames[i + 1].img.hash)
            < call.threshold

RECURSIVE IsSubsequence(_, _)
IsSubsequence(a, b) ==
    IF a = <<>> THEN TRUE
    ELSE IF b = <<>> THEN FALSE
    ELSE IF Head(a) = Head(b) THEN IsSubsequence(Tail(a), Tail(b))
    ELSE IsSubsequence(a, Tail(b))

Chronological(frames) ==
    \A i \in 1..(Len(frames) - 1) : frames[i].timestamp <= frames[i + 1].timestamp

\* C15: the frames returned are a subsequence of the frames given (same
\* paths and timestamps, same relative order, none added or repeated), so a
\* chronological input gives a chronological output.
C15_KeptIsSubsequence ==
    DedupReturned =>
        /\ IsSubsequence(Refs(call.unique_frames), Refs(call.frames))
        /\ Chronological(call.frames) => Chronological(call.unique_frames)

\* four chronological frames of which the second and the fourth are dropped
C15_Witness ==
    /\ DedupReturned
    /\ Len(call.frames) = 4
    /\ Chronological(call.frames)
    /\ Len(call.unique_frames) = 2
    /\ call.unique_frames[1].path = call.frames[1].path
    /\ call.unique_frames[2].path = call.frames[3].path

\* the frames of a list that can be hashed
Readable(frames) == SelectSeq(frames, LAMBDA fr : fr.img.hash # Unreadable)

\* C16: a frame whose hash cannot be computed is kept, and the other frames
\* are kept or dropped as if the failing frames were not in the list (the
\* baseline is the one from before the failing frame).
C16_HashFailureKeepsFrame ==
    DedupReturned =>
        /\ \A i \in 1..Len(call.frames) :
             call.frames[i].img.hash = Unreadable
                => i \in KeptAt(call.frames, call.unique_frames)
        /\ Refs(Readable(call.unique_frames))
             = Refs(remove_duplicate_frames(Readable(call.frames),
                                            call.threshold))

\* a duplicate after an unreadable frame is still dropped
C16_Witness ==
    /\ DedupReturned
    /\ Len(call.frames) = 3
    /\ call.threshold = phash_threshold
    /\ call.frames[1].img = File(0, FALSE)
    /\ call.frames[2].img = File(Unreadable, FALSE)
    /\ call.frames[3].img = File(3, FALSE)
    /\ Len(call.unique_frames) = 2
    /\ call.unique_frames[2].path = call.frames[2].path

----------------------------------------------------------------------------
(* Properties of extract_keyframes, under KeyframesSpec *)

KeyframesReturned == call.fn = "extract_keyframes" /\ call.returned

Timestamps(frames) == [i \in 1..Len(frames) |-> frames[i].timestamp]

\* C17: without a detected scene change the frames are those at k * 30 for
\* every k >= 0 with k * 30 < duration, less the ones whose extraction
\* failed, in ascending order; with a detected scene change the frames are
\* at detected timestamps only.
C17_IntervalFallback ==
    KeyframesReturned =>
        LET ts == Timestamps(call.frames)
        IN  /\ \A i \in 1..(Len(ts) - 1) : ts[i] < ts[i + 1]
            /\ call.scenes = <<>> =>
                 \A t \in 0..call.duration :
                    (\E i \in 1..Len(ts) : ts[i] = t)
                       <=> /\ t % 30 = 0
                           /\ t < call.duration
                           /\ (t \div 30) + 1 \notin call.fails
            /\ call.scenes = <<>> =>
                 \A i \in 1..Len(ts) : ts[i] < call.duration
            /\ call.scenes # <<>> =>
                 {ts[i] : i \in 1..Len(ts)}
                    = {call.scenes[k] :
                          k \in (1..Len(call.scenes)) \ call.fails}

\* duration 125 and no scene change: frames at 0, 30, 60, 90, 120
C17_Witness ==
    /\ KeyframesReturned
    /\ call.scenes = <<>>
    /\ call.duration = 125
    /\ Timestamps(call.frames) = <<0, 30, 60, 90, 120>>

----------------------------------------------------------------------------
(* Properties of process_batch, under OcrSpec *)

\* C18: process_batch returns one result per image also when images fail:
\* the result of a failing image has empty text, confidence 0 and no lines,
\* failed_images counts the failing images, and
\* processed_images + failed_images = total_images = len(results).
C18_BatchIsolatesFailures ==
    (call.fn = "process_batch" /\ call.returned) =>
        LET n == Len(call.image_paths)
            r == call.result
            failing == {i \in 1..n : call.texts[i] = OcrFailure}
        IN  /\ Len(r.results) = n
            /\ r.total_images = n
            /\ r.failed_images = Cardinality(failing)
            /\ r.processed_images + r.failed_images = r.total_images
            /\ \A i \in 1..n :
                 /\ Cardinality({k \in 1..Len(r.results) :
                        r.results[k].image_path = call.image_paths[i]}) = 1
                 /\ \A k \in 1..Len(r.results) :
                      r.results[k].image_path = call.image_paths[i] =>
                         /\ r.results[k].timestamp = call.timestamps[i]
                         /\ IF i \in failing
                            THEN /\ r.results[k].text = <<>>
                                 /\ r.results[k].confidence = 0
                                 /\ r.results[k].text_lines = <<>>
                            ELSE r.results[k].text = call.texts[i]

\* three images of which the second raises
C18_Witness ==
    /\ call.fn = "process_batch"
    /\ call.returned
    /\ call.texts = <<(<<"X">>), OcrFailure, (<<"X">>)>>
    /\ Len(call.result.results) = 3
    /\ call.result.failed_images = 1
    /\ \E k \in 1..3 : /\ call.result.results[k].image_path = call.image_paths[2]
                       /\ call.result.results[k].text = <<>>
                       /\ call.result.results[k].confidence = 0

----------------------------------------------------------------------------
(* Properties of the summarization *)

\* C19: a failing summarization call, per chapter or overall, never fails
\* the job: its exception does not reach the handler of process_video, and
\* the job is not FAILED by it.
C19_SummaryFailureNotFatal ==
    ~(/\ pc = "raised"
      /\ Steps[si] = "summarize"
      /\ exc = IndexError
      /\ job.status = FAILED)

----------------------------------------------------------------------------
(* The lecture video, under LectureSpec *)

\* C11: when the lecture video has been processed and its frame extraction
\* did not fail, two frames at 0 and 60 are kept, chapter 0 is [0, 60) with
\* the speech "intro", chapter 1 is [60, 125) with the speech "body", and the
\* job reports total_frames = 2.
C11_LectureScenario ==
    (pc = "done" /\ Len(unique_frames) >= 1) =>
        /\ Len(unique_frames) = 2
        /\ unique_frames[1].timestamp = 0
        /\ unique_frames[2].timestamp = 60
        /\ Len(unified.chapters) = 2
        /\ unified.chapters[1].timestamp_start = 0
        /\ unified.chapters[1].timestamp_end = 60
        /\ unified.chapters[1].speech_text = <<"i", "n", "t", "r", "o">>
        /\ unified.chapters[2].timestamp_start = 60
        /\ unified.chapters[2].timestamp_end = 125
        /\ unified.chapters[2].speech_text = <<"b", "o", "d", "y">>
        /\ job.total_frames = 2

----------------------------------------------------------------------------
(* Properties of the pipeline on a video without frames, under Spec *)

\* integrate has just returned
Integrated == pc = "worked" /\ Steps[si] = "integrate"

\* C29: integrate returns one chapter per OCR result, in timestamp order,
\* chapter i (counted from 0) at position i; without retained frames there
\* is no chapter, so no segment is kept, and the job that reaches its end is
\* COMPLETED with word_count 0.
C29_OneChapterPerFrame ==
    /\ Integrated =>
         LET c == unified.chapters
         IN  /\ Len(c) = Len(ocr_results.results)
             /\ Len(c) = Len(unique_frames)
             /\ \A i \in DOMAIN c : c[i].index = i - 1
             /\ \A i \in 1..(Len(c) - 1) :
                  c[i].timestamp_start <= c[i + 1].timestamp_start
             /\ \A i \in DOMAIN c :
                  c[i].timestamp_start = ocr_results.results[i].timestamp
    /\ (pc = "done" /\ unique_frames = <<>>) =>
         /\ unified.chapters = <<>>
         /\ job.status = COMPLETED
         /\ job.word_count = 0
         /\ job.total_frames = 0

\* a video with two speech segments and no retained frame was processed
C29_Witness ==
    /\ pc = "done"
    /\ unique_frames = <<>>
    /\ Len(transcription.segments) = 2
    /\ unified.chapters = <<>>
    /\ job.status = COMPLETED
    /\ job.word_count = 0

----------------------------------------------------------------------------
(* Properties of the service, under ServiceSpec *)

\* the stages of job j whose status is st
StagesIn(j, st) == {i \in 1..7 : jobs[j][StageField[i]] = st}

\* C21: when the input video file of a job is missing, the error is raised
\* before any stage of the job is moved to PROCESSING and before any
\* external tool is started.
C21_MissingInputRaisedBeforeStageWork ==
    \A j \in JobIds :
        tasks[j].input_missing =>
            /\ StagesIn(j, PENDING) = 1..7
            /\ tasks[j].tools = {}

\* C22: once the soft time limit has fired in a running stage of a job, the
\* job is FAILED and its completed_at is set.
C22_SoftLimitRecordsFailure ==
    \A j \in JobIds :
        tasks[j].soft_limit # "no" =>
            /\ jobs[j].status = FAILED
            /\ jobs[j].completed_at # None

\* a killed task: the row as the kill left it, and nothing runs for the job
KilledState(j) ==
    tasks[j].killed # "no" =>
        /\ tasks[j].pc = "killed"
        /\ jobs[j].status = PROCESSING
        /\ tasks[j].killed # "between" =>
             /\ jobs[j][StepField(tasks[j].killed)] = PROCESSING
             /\ jobs[j].current_step = tasks[j].killed

KilledStep(j) ==
    tasks[j].killed # "no" => jobs'[j] = jobs[j] /\ tasks'[j] = tasks[j]

\* C23: after the task of a job was killed between its first and its last
\* update, the job is PROCESSING, the stage whose body was running is still
\* PROCESSING, and no step of the service changes the job row or runs the
\* task again.
C23_KilledJobStaysProcessing ==
    /\ [](\A j \in JobIds : KilledState(j))
    /\ [][\A j \in JobIds : KilledStep(j)]_vars

\* a job was killed in the body of a stage and the other job was then run to
\* its end
C23_Witness ==
    \E j, k \in JobIds :
        /\ tasks[j].killed = "transcribe"
        /\ jobs[j].progress = 30
        /\ tasks[k].pc = "done"
        /\ tasks[k].deliveries = 1
        /\ worker.pid = 1

\* C24: at most one process_video task is executing at any time.
C24_OneTaskAtATime ==
    \A j, k \in JobIds : (Executing(j) /\ Executing(k)) => j = k

\* the body of a stage is running for one job while the message of another
\* waits in the queue, and a task that was killed lies behind
C24_Witness ==
    \E j, k \in JobIds :
        /\ j # k
        /\ tasks[j].pc = "running"
        /\ tasks[j].si = 3
        /\ broker = <<k>>
        /\ jobs[k].status = QUEUED

\* C25: in one worker process at most one speech model and at most one OCR
\* reader is built, none before its first use, and every call that needs
\* one works with the cached handle.
C25_ModelsBuiltOnceAndReused ==
    /\ worker.models_created <= 1
    /\ worker.readers_created <= 1
    /\ worker.models_created = Cardinality(worker.models_used)
    /\ worker.readers_created = Cardinality(worker.readers_used)
    /\ worker.models_used \subseteq {worker.model}
    /\ worker.readers_used \subseteq {worker.reader}

\* two jobs were transcribed and read in the same process
C25_Witness ==
    /\ worker.pid = 0
    /\ \A j \in {1, 2} : {"whisper", "easyocr"} \subseteq tasks[j].tools
    /\ worker.models_created = 1
    /\ worker.readers_created = 1

\* C26: at most one stage of a job is PROCESSING, and current_step names
\* that stage when there is one and is null when there is none.
C26_CurrentStepIsTheProcessingStage ==
    \A j \in JobIds :
        jobs[j] # NoJob =>
            /\ \A a, b \in StagesIn(j, PROCESSING) : a = b
            /\ \A i \in StagesIn(j, PROCESSING) :
                 jobs[j].current_step = StageOrder[i]
            /\ StagesIn(j, PROCESSING) = {} => jobs[j].current_step = None

\* a failed job whose stage stays PROCESSING, and a job between two stages
C26_Witness ==
    \E j, k \in JobIds :
        /\ jobs[j].status = FAILED
        /\ jobs[j].current_step = "ocr"
        /\ StagesIn(j, COMPLETED) = 1..3
        /\ tasks[k].pc = "next"
        /\ tasks[k].si = 5
        /\ jobs[k].current_step = None

\* a job whose enqueueing failed: its row is as create_job wrote it and no
\* message for it is in the queue
UnsentState(j) ==
    tasks[j].pc = "unsent" =>
        /\ jobs[j] = NewJob
        /\ \A i \in DOMAIN broker : broker[i] # j

UnsentStep(j) ==
    tasks[j].pc = "unsent" => jobs'[j] = jobs[j] /\ tasks'[j] = tasks[j]

\* C30: a job whose row is missing has not been enqueued; and after
\* process_video.delay failed in the upload route or in the watcher, the job
\* row stays, QUEUED, with no message in the queue and no task, for ever.
C30_UnsentJobStaysQueued ==
    /\ [](\A j \in JobIds :
            /\ jobs[j] = NoJob => tasks[j].pc = "absent"
            /\ UnsentState(j))
    /\ [][\A j \in JobIds : UnsentStep(j)]_vars

\* the enqueueing of the first job failed and the second job was processed
C30_Witness ==
    /\ tasks[1].pc = "unsent"
    /\ jobs[1].status = QUEUED
    /\ tasks[2].pc = "done"
    /\ jobs[2].status = COMPLETED

----------------------------------------------------------------------------
(* Properties of a task delivered again, under RedeliverySpec *)

\* the stage statuses of row a and row b are the same
SameStages(a, b) == \A i \in 1..7 : a[StageField[i]] = b[StageField[i]]

\* process_video starts for a job that is COMPLETED or FAILED
Restart(j) ==
    /\ jobs[j].status \in {COMPLETED, FAILED}
    /\ tasks[j].pc = "queued"
    /\ tasks'[j].pc = "next"

\* C27: when process_video starts for a job that is COMPLETED or FAILED, the
\* job becomes PROCESSING with its stage statuses as the earlier run left
\* them and the task is at extract_audio; its first write then sets
\* progress 5, and the stages are run in order from there.
C27_RedeliveredTaskRunsAgain ==
    /\ [][\A j \in JobIds :
            Restart(j) =>
                /\ jobs'[j].status = PROCESSING
                /\ SameStages(jobs'[j], jobs[j])
                /\ tasks'[j].si = 1]_vars
    /\ [](\A j \in JobIds :
            (tasks[j].deliveries > 1 /\ Executing(j)) =>
                /\ jobs[j].status = PROCESSING
                /\ (tasks[j].pc = "running" /\ tasks[j].si = 1) =>
                     /\ jobs[j].progress = 5
                     /\ jobs[j].current_step = "extract_audio"
                /\ \A i \in 1..(tasks[j].si - 1) :
                     jobs[j][StageField[i]] = COMPLETED)

\* the second run of a job that failed in the ocr stage: extract_audio is
\* PROCESSING again while ocr is still PROCESSING
C27_Witness ==
    /\ tasks[1].deliveries = 2
    /\ tasks[1].pc = "running"
    /\ tasks[1].si = 1
    /\ jobs[1].status = PROCESSING
    /\ jobs[1].progress = 5
    /\ jobs[1].step_ocr = PROCESSING
    /\ jobs[1].error_message # None

====
